---- MODULE Spec2Model ----
(***************************************************************************)
(* Model of the Rewrap plugin's text handler, rewrap/rewrap.py:            *)
(* RewrapWindowHelper._rewrap_selection and its closure format_paragraph.  *)
(* A text is a sequence of one-character strings.                          *)
(***************************************************************************)
EXTENDS Integers, Sequences, FiniteSets

\* ----------------------------------------------------------------- bounds
\* longest selected text over the whole alphabet
MaxLen == 4
\* longest selected text over the plain alphabet
MaxPlainLen == 6
\* longest selected text over the tab alphabet
MaxTabLen == 5
\* largest right margin
MaxWidth == 5
\* largest tab size
MaxTab == 2

\* ------------------------------------------------------ character classes
NL == "\n"
TAB == "\t"

\* rewrap.py:41  INDENT_CHARS = ' \t#/;*!-'
INDENT_CHARS == {" ", "\t", "#", "/", ";", "*", "!", "-"}

\* the characters the regular expressions' \s matches and \S does not
\* (the vertical tab, which has no escape here, is left out)
Whitespace == {" ", "\t", "\n", "\r", "\f"}

\* rewrap.py:255  'ABCDEFGHIJKLMNOPQRSTUVWXYZ'
Capitals == {"A", "B", "C", "D", "E", "F", "G", "H", "I", "J", "K", "L", "M",
             "N", "O", "P", "Q", "R", "S", "T", "U", "V", "W", "X", "Y", "Z"}

\* the characters the selected text is drawn from
Alphabet == {"a", "A", ".", " ", "\t", "-", "\n"}

\* the characters of the longer texts: a letter, a space, one indent
\* character that is no whitespace, and the newline
PlainAlphabet == {"a", " ", "-", "\n"}

\* the characters of the texts with tabs: a letter, the two blanks that are
\* indent characters too, and the newline
TabAlphabet == {"a", " ", "\t", "\n"}

TextsOver(chars, n) == UNION {[1..k -> chars] : k \in 0..n}

Texts ==
    TextsOver(Alphabet, MaxLen)
        \cup TextsOver(PlainAlphabet, MaxPlainLen)
        \cup TextsOver(TabAlphabet, MaxTabLen)

\* ------------------------------------------------------- string helpers
\* index of the first c in s at or after i, 0 when there is none
RECURSIVE Find(_, _, _)
Find(s, c, i) ==
    IF i > Len(s) THEN 0
    ELSE IF s[i] = c THEN i
    ELSE Find(s, c, i + 1)

\* str.count
RECURSIVE Count(_, _)
Count(s, c) ==
    IF s = <<>> THEN 0
    ELSE (IF Head(s) = c THEN 1 ELSE 0) + Count(Tail(s), c)

\* str.splitlines(): the lines without their terminators; a final newline
\* does not open a further, empty line
RECURSIVE SplitLines(_)
SplitLines(s) ==
    IF s = <<>> THEN <<>>
    ELSE LET j == Find(s, NL, 1)
         IN  IF j = 0 THEN <<s>>
             ELSE <<SubSeq(s, 1, j - 1)>> \o SplitLines(SubSeq(s, j + 1, Len(s)))

\* sep.join(parts)
RECURSIVE Join(_, _)
Join(parts, sep) ==
    IF parts = <<>> THEN <<>>
    ELSE IF Len(parts) = 1 THEN parts[1]
    ELSE parts[1] \o sep \o Join(Tail(parts), sep)

\* line.lstrip(INDENT_CHARS)
RECURSIVE LStrip(_)
LStrip(line) ==
    IF line # <<>> /\ Head(line) \in INDENT_CHARS THEN LStrip(Tail(line))
    ELSE line

\* re.match('[%s]*' % INDENT_CHARS, text).group(0)
RECURSIVE MatchIndent(_)
MatchIndent(s) ==
    IF s # <<>> /\ Head(s) \in INDENT_CHARS
    THEN <<Head(s)>> \o MatchIndent(Tail(s))
    ELSE <<>>

\* len(indent) + indent.count('\t') * (tab_width - 1)
IndentWidth(ind, tw) == Len(ind) + Count(ind, TAB) * (tw - 1)

\* '\n'.join(line.lstrip(INDENT_CHARS) for line in text.splitlines())
StripIndent(s) ==
    LET lines == SplitLines(s)
    IN  Join([k \in 1..Len(lines) |-> LStrip(lines[k])], <<NL>>)

\* ------------------------------------------------------------ paragraphs
\* first index at or after i whose character is whitespace, Len(s)+1 if none
RECURSIVE WordEnd(_, _)
WordEnd(s, i) ==
    IF i > Len(s) \/ s[i] \in Whitespace THEN i ELSE WordEnd(s, i + 1)

\* re.findall('\S+', paragraph), scanning from i
RECURSIVE FindWords(_, _)
FindWords(s, i) ==
    IF i > Len(s) THEN <<>>
    ELSE IF s[i] \in Whitespace THEN FindWords(s, i + 1)
    ELSE LET e == WordEnd(s, i)
         IN  <<SubSeq(s, i, e - 1)>> \o FindWords(s, e)

\* (?:[ \t]*\S+)+ matches the whole of c
WordsMatch(c) ==
    /\ c # <<>>
    /\ c[Len(c)] \notin Whitespace
    /\ \A k \in 1..Len(c) : c[k] \in Whitespace => c[k] \in {" ", TAB}

\* line_re  ^(?:[ \t]*\S+)+\n  tried at i: the index after its newline, or 0
MatchLine(s, i) ==
    LET j == Find(s, NL, i)
    IN  IF /\ i <= Len(s)
           /\ (i = 1 \/ s[i - 1] = NL)
           /\ j # 0
           /\ WordsMatch(SubSeq(s, i, j - 1))
        THEN j + 1
        ELSE 0

\* paragraph_re  (?:line_re)+  tried at i, greedy: the index after it, or 0
RECURSIVE MatchParagraph(_, _)
MatchParagraph(s, i) ==
    LET e == MatchLine(s, i)
    IN  IF e = 0 THEN 0
        ELSE LET e2 == MatchParagraph(s, e)
             IN  IF e2 = 0 THEN e ELSE e2

\* re.findall(paragraph_re, text, re.MULTILINE), scanning from i
RECURSIVE FindParagraphs(_, _)
FindParagraphs(s, i) ==
    IF i > Len(s) THEN <<>>
    ELSE LET e == MatchParagraph(s, i)
         IN  IF e = 0 THEN FindParagraphs(s, i + 1)
             ELSE <<SubSeq(s, i, e - 1)>> \o FindParagraphs(s, e)

\* ------------------------------------------------------ format_paragraph
\* Space with the test for the capital forgotten
SpaceAfterPeriod(new_paragraph, word) ==
    IF new_paragraph[Len(new_paragraph)] = "." THEN <<" ", " ">> ELSE <<" ">>

\* the space between the line so far and the next word
Space(new_paragraph, word) ==
    LET is_after_period == new_paragraph[Len(new_paragraph)] = "."
        is_before_capital == word[1] \in Capitals
    IN  IF is_after_period /\ is_before_capital THEN <<" ", " ">> ELSE <<" ">>

\* Fits with the margin off by one, either way
FitsLoose(potential_offset, max) == potential_offset <= max + 1

FitsStrict(potential_offset, max) == potential_offset < max

\* whether the word still goes on the current line
Fits(potential_offset, max) == potential_offset <= max

\* AddWord with the indent put before the paragraph's first line only
AddWordFirstIndent(acc, word, ind, iw, max) ==
    LET space == Space(acc.np, word)
        potential_offset == acc.off + Len(space) + Len(word)
        a1 == IF acc.off # 0
              THEN IF Fits(potential_offset, max)
                   THEN [np |-> acc.np \o space \o word, off |-> potential_offset]
                   ELSE [np |-> acc.np \o <<NL>>, off |-> 0]
              ELSE acc
    IN  IF a1.off = 0
        THEN [np |-> a1.np \o (IF a1.np = <<>> THEN ind ELSE <<>>) \o word,
              off |-> iw + Len(word)]
        ELSE a1

\* one round of the loop over the words: acc is [np, off]
AddWord(acc, word, ind, iw, max) ==
    LET space == Space(acc.np, word)
        potential_offset == acc.off + Len(space) + Len(word)
        a1 == IF acc.off # 0
              THEN IF Fits(potential_offset, max)
                   THEN [np |-> acc.np \o space \o word, off |-> potential_offset]
                   ELSE [np |-> acc.np \o <<NL>>, off |-> 0]
              ELSE acc
    IN  IF a1.off = 0
        THEN [np |-> a1.np \o ind \o word, off |-> iw + Len(word)]
        ELSE a1

RECURSIVE FormatWords(_, _, _, _, _, _)
FormatWords(words, k, acc, ind, iw, max) ==
    IF k > Len(words) THEN acc
    ELSE FormatWords(words, k + 1, AddWord(acc, words[k], ind, iw, max), ind, iw, max)

FormatParagraph(paragraph, ind, iw, max) ==
    FormatWords(FindWords(paragraph, 1), 1, [np |-> <<>>, off |-> 0], ind, iw, max).np
        \o <<NL>>

\* Combine with no line between the paragraphs
CombineNoBlank(new_paragraphs, ind) == Join(new_paragraphs, <<>>)

\* Combine with an empty line, not the indent, between the paragraphs
CombineEmptyLine(new_paragraphs, ind) == Join(new_paragraphs, <<NL>>)

\* blank_line.join(new_paragraphs)
Combine(new_paragraphs, ind) == Join(new_paragraphs, ind \o <<NL>>)

\* the body of _rewrap_selection after "if not text: return": its locals
Rewrap(t, max, tw) ==
    LET t1 == t \o <<NL>>
        ind == MatchIndent(t1)
        iw == IndentWidth(ind, tw)
        st == StripIndent(t1)
        paras == FindParagraphs(st, 1)
        new_paragraphs == [k \in 1..Len(paras) |-> FormatParagraph(paras[k], ind, iw, max)]
    IN  [indent |-> ind, indent_width |-> iw, stripped |-> st, paragraphs |-> paras,
         output |-> Combine(new_paragraphs, ind)]

\* the text the selection holds after _rewrap_selection
Reflow(t, max, tw) == IF t = <<>> THEN <<>> ELSE Rewrap(t, max, tw).output

\* ----------------------------------------------------------------- state
VARIABLES
    text,             \* the selected text in the document
    max_line_length,  \* gedit's right margin
    tab_width,        \* gedit's tab size
    pc,               \* "idle" before the first rewrap, "replaced" after one
    selected,         \* the text the last rewrap read
    indent,           \* locals of the last rewrap
    indent_width,
    stripped,
    paragraphs,
    output

vars == <<text, max_line_length, tab_width, pc, selected, indent, indent_width,
          stripped, paragraphs, output>>

Init ==
    /\ text \in Texts
    /\ max_line_length \in 1..MaxWidth
    /\ tab_width \in 1..MaxTab
    /\ pc = "idle"
    /\ selected = <<>>
    /\ indent = <<>>
    /\ indent_width = 0
    /\ stripped = <<>>
    /\ paragraphs = <<>>
    /\ output = <<>>

\* _rewrap_selection with an empty selection: "if not text: return"
RewrapNothing ==
    /\ text = <<>>
    /\ UNCHANGED vars

\* _rewrap_selection, to the replacement of the selection by the output
RewrapSelection ==
    /\ text # <<>>
    /\ \E r \in {Rewrap(text, max_line_length, tab_width)} :
           /\ selected' = text
           /\ indent' = r.indent
           /\ indent_width' = r.indent_width
           /\ stripped' = r.stripped
           /\ paragraphs' = r.paragraphs
           /\ output' = r.output
           /\ text' = r.output
    /\ pc' = "replaced"
    /\ UNCHANGED <<max_line_length, tab_width>>

Next == RewrapNothing \/ RewrapSelection

Spec == Init /\ [][Next]_vars


\* ------------------------------------------------- reading a text back
\* the longest run of indent characters a text starts with
LeadingRun(s) ==
    LET n == CHOOSE k \in 0..Len(s) :
                 /\ \A i \in 1..k : s[i] \in INDENT_CHARS
                 /\ (k < Len(s) => s[k + 1] \notin INDENT_CHARS)
    IN  SubSeq(s, 1, n)

\* a line without its leading run of indent characters
Unindented(line) == SubSeq(line, Len(LeadingRun(line)) + 1, Len(line))

\* the whitespace-delimited tokens of a text
Tokens(s) == FindWords(s, 1)

\* the tokens of a sequence of lines, in order
RECURSIVE TokensOfLines(_)
TokensOfLines(lines) ==
    IF lines = <<>> THEN <<>>
    ELSE Tokens(Head(lines)) \o TokensOfLines(Tail(lines))

\* the multiset of the elements of a sequence
BagOf(seq) ==
    [x \in {seq[i] : i \in DOMAIN seq} |-> Cardinality({i \in DOMAIN seq : seq[i] = x})]

\* the lines of the output
OutputLines == SplitLines(output)

\* an output line after the indent
Body(line) ==
    IF Len(line) >= Len(indent) /\ SubSeq(line, 1, Len(indent)) = indent
    THEN SubSeq(line, Len(indent) + 1, Len(line))
    ELSE line

OutputBodies == [k \in 1..Len(OutputLines) |-> Body(OutputLines[k])]

\* columns of a text on the screen, a tab taking tab_width of them
Cols(s) == Len(s) + Cardinality({i \in DOMAIN s : s[i] = TAB}) * (tab_width - 1)

\* column width of an output line: the indent's columns and what follows it
ColWidth(line) == Cols(indent) + Len(Body(line))

\* the blank that the sentence rule puts between two characters
SpaceWidth(before, after) == IF before = "." /\ after \in Capitals THEN 2 ELSE 1

\* the output lines cut at the separator lines (the lines that are the indent
\* and nothing else): as many groups as separator lines, and one
RECURSIVE SplitAt(_, _)
SplitAt(lines, sep) ==
    LET hits == {i \in 1..Len(lines) : lines[i] = sep}
    IN  IF hits = {} THEN <<lines>>
        ELSE LET i == CHOOSE h \in hits : \A g \in hits : h <= g
             IN  <<SubSeq(lines, 1, i - 1)>>
                     \o SplitAt(SubSeq(lines, i + 1, Len(lines)), sep)

Groups == SplitAt(OutputLines, indent)

\* number of paragraphs of a text: runs of lines that hold a token once
\* their leading indent characters are removed
NumParagraphs(t) ==
    LET lines == SplitLines(t)
        full(i) == Tokens(Unindented(lines[i])) # <<>>
    IN  Cardinality({i \in 1..Len(lines) : full(i) /\ (i = 1 \/ ~full(i - 1))})

\* every line of t is within the margin
WithinWidth(t) ==
    \A i \in 1..Len(SplitLines(t)) : Cols(SplitLines(t)[i]) <= max_line_length

\* no token of t but the first of its line begins with an indent character
NoInnerIndentToken(t) ==
    \A i \in 1..Len(SplitLines(t)) :
        LET toks == Tokens(Unindented(SplitLines(t)[i]))
        IN  \A k \in 2..Len(toks) : toks[k][1] \notin INDENT_CHARS

\* ---------------------------------------------------------------- claims

\* C1: word preservation: the multiset of tokens of the output, the indent of
\* each output line left out, is the multiset of tokens of the selected text,
\* the leading indent characters of each of its lines left out.
WordPreservation ==
    pc = "replaced" =>
        LET lines == SplitLines(selected)
        IN  BagOf(TokensOfLines(OutputBodies))
                = BagOf(TokensOfLines([k \in 1..Len(lines) |-> Unindented(lines[k])]))

\* C2 as stated: every output line is at most max_line_length columns wide,
\* except a line that is one token longer than max_line_length.
WidthBound ==
    pc = "replaced" =>
        \A k \in 1..Len(OutputLines) :
            \/ ColWidth(OutputLines[k]) <= max_line_length
            \/ /\ Len(Tokens(OutputBodies[k])) = 1
               /\ Len(Tokens(OutputBodies[k])[1]) > max_line_length

\* C2 amended: every output line that holds two or more tokens is at most
\* max_line_length columns wide.
WidthBoundOfPackedLines ==
    pc = "replaced" =>
        \A k \in 1..Len(OutputLines) :
            Len(Tokens(OutputBodies[k])) >= 2 => ColWidth(OutputLines[k]) <= max_line_length

\* a line of two tokens that fills the margin, after an indent with a tab
\* that is wider than one column
WidthBoundReached ==
    /\ pc = "replaced"
    /\ Cols(indent) > Len(indent)
    /\ \E k \in 1..Len(OutputLines) :
           /\ Len(Tokens(OutputBodies[k])) >= 2
           /\ ColWidth(OutputLines[k]) = max_line_length

\* C3 as stated: rewrapping the output of a rewrap of a text whose lines are
\* all within the margin gives that output again.
Idempotence ==
    (pc = "replaced" /\ WithinWidth(selected)) =>
        Reflow(output, max_line_length, tab_width) = output

\* C3 amended: the same, for the texts in which no token but the first of
\* its line begins with an indent character.
IdempotenceOfPlainTokens ==
    (pc = "replaced" /\ WithinWidth(selected) /\ NoInnerIndentToken(selected)) =>
        Reflow(output, max_line_length, tab_width) = output

\* a rewrap of such a text, of two paragraphs, that changed it
IdempotenceReached ==
    /\ pc = "replaced"
    /\ WithinWidth(selected)
    /\ NoInnerIndentToken(selected)
    /\ indent # <<>>
    /\ Len(paragraphs) >= 2
    /\ output # selected
    /\ Reflow(output, max_line_length, tab_width) = output

\* C4: indent uniformity: every output line begins with the indent of the
\* first selected line, and every line but a separator line holds a token
\* after it.
IndentUniformity ==
    pc = "replaced" =>
        LET first == LeadingRun(selected)
        IN  \A k \in 1..Len(OutputLines) :
                LET line == OutputLines[k]
                IN  /\ Len(line) >= Len(first)
                    /\ SubSeq(line, 1, Len(first)) = first
                    /\ (line # first =>
                            Tokens(SubSeq(line, Len(first) + 1, Len(line))) # <<>>)

\* an output with an indent, a separator line and lines of paragraphs
IndentUniformityReached ==
    /\ pc = "replaced"
    /\ LeadingRun(selected) # <<>>
    /\ Len(paragraphs) >= 2
    /\ \E k \in 1..Len(OutputLines) : OutputLines[k] = LeadingRun(selected)
    /\ \E k \in 1..Len(OutputLines) : OutputLines[k] # LeadingRun(selected)

\* C5: paragraph count preservation: the output has as many paragraphs as
\* the selected text.
ParagraphCount ==
    pc = "replaced" => NumParagraphs(output) = NumParagraphs(selected)

\* C6: paragraph joining: when the segmenter finds k >= 1 paragraphs, the
\* output is k groups of lines, the i-th holding the words of the i-th
\* paragraph, with one separator line, the indent and a newline, between two
\* groups and none before the first or after the last.
ParagraphJoining ==
    (pc = "replaced" /\ Len(paragraphs) >= 1) =>
        /\ output[Len(output)] = NL
        /\ Len(Groups) = Len(paragraphs)
        /\ \A i \in 1..Len(Groups) :
               /\ Groups[i] # <<>>
               /\ i <= Len(paragraphs)
               /\ TokensOfLines([k \in 1..Len(Groups[i]) |-> Body(Groups[i][k])])
                      = Tokens(paragraphs[i])

\* two paragraphs that two or more blank lines separate in the selected text
ParagraphJoiningReached ==
    /\ pc = "replaced"
    /\ Len(paragraphs) = 2
    /\ \E i \in 1..(Len(stripped) - 2) :
           stripped[i] = NL /\ stripped[i + 1] = NL /\ stripped[i + 2] = NL
    /\ Len(OutputLines) = 3
    /\ OutputLines[2] = indent

\* index of the first character of b at or after i that is no whitespace, or 0
NextToken(b, i) ==
    LET js == {j \in i..Len(b) : b[j] \notin Whitespace}
    IN  IF js = {} THEN 0 ELSE CHOOSE j \in js : \A h \in js : j <= h

\* the places of b where the blank after a token begins
GapStarts(b) == {i \in 2..Len(b) : b[i] \in Whitespace /\ b[i - 1] \notin Whitespace}

\* C7: sentence spacing: two tokens next to each other on an output line have
\* two spaces between them when the first ends with a period and the second
\* begins with a capital, and one space otherwise.
SentenceSpacing ==
    pc = "replaced" =>
        \A k \in 1..Len(OutputLines) :
            LET b == OutputBodies[k]
            IN  /\ (b # <<>> => b[1] \notin Whitespace)
                /\ \A i \in GapStarts(b) :
                       LET j == NextToken(b, i)
                       IN  /\ j # 0
                           /\ \A m \in i..(j - 1) : b[m] = " "
                           /\ j - i = SpaceWidth(b[i - 1], b[j])

\* a sentence gap of two spaces where the selected text had another blank
SentenceSpacingReached ==
    /\ pc = "replaced"
    /\ \E k \in 1..Len(OutputLines) :
           \E i \in GapStarts(OutputBodies[k]) :
               NextToken(OutputBodies[k], i) = i + 2
    /\ ~ \E i \in 1..(Len(selected) - 1) : selected[i] = " " /\ selected[i + 1] = " "

\* C8: greedy packing: the tokens of a paragraph come out in their order,
\* unsplit; a token that is not the paragraph's first starts a new output line
\* exactly when the width of the line so far, the blank and the token together
\* pass max_line_length.
GreedyPacking ==
    (pc = "replaced" /\ Len(Groups) = Len(paragraphs)) =>
        \A g \in 1..Len(Groups) :
            LET lines == Groups[g]
                bodies == [k \in 1..Len(lines) |-> Body(lines[k])]
            IN  /\ TokensOfLines(bodies) = Tokens(paragraphs[g])
                \* a token that starts a line did not fit on the line before
                /\ \A k \in 2..Len(lines) :
                       LET prev == bodies[k - 1]
                           word == Tokens(bodies[k])[1]
                       IN  ColWidth(lines[k - 1])
                               + SpaceWidth(prev[Len(prev)], word[1])
                               + Len(word) > max_line_length
                \* a token that follows another on its line did fit there
                /\ \A k \in 1..Len(lines) :
                       \A i \in GapStarts(bodies[k]) :
                           LET j == NextToken(bodies[k], i)
                               e == WordEnd(bodies[k], j)
                           IN  (i - 1) + SpaceWidth(bodies[k][i - 1], bodies[k][j])
                                   + (e - j) + Cols(indent) <= max_line_length

\* a line of two tokens and a line after it, in one paragraph
GreedyPackingReached ==
    /\ pc = "replaced"
    /\ Len(paragraphs) = 1
    /\ Len(OutputLines) >= 2
    /\ \E k \in 1..Len(OutputLines) : Len(Tokens(OutputBodies[k])) >= 2

\* C9: the stripping of the indents is idempotent: stripping the stripped
\* text gives the stripped text.
StripIdempotent ==
    pc = "replaced" => StripIndent(stripped) = stripped

\* C10: every line of the text that reaches the paragraph segmenter ends with
\* a newline, the last one too.
LinesTerminated ==
    pc = "replaced" => (stripped # <<>> => stripped[Len(stripped)] = NL)

====
